---- MODULE Spec2Model ----
(***************************************************************************)
(* Model of the Hexagon remote execution service                           *)
(* (src/runtime/hexagon_remote/halide_hexagon_remote.cpp): the module      *)
(* loader with its power reference count, the sequential task executor,    *)
(* the invocation marshaler and the aligned allocator.                     *)
(***************************************************************************)
EXTENDS Integers, Sequences, FiniteSets, TLC

VARIABLES context_count, hvx_on, refs, live, phase, call, pf, rn, al,
          heap, mem, hp, fr, pc, tmp, n_init, n_rel, overlapped

\* the underlying heap seen by halide_malloc and halide_free
heapVars == <<heap, mem, hp, fr>>
\* concurrent callers of initialize_kernels and release_kernels
concVars == <<pc, tmp, n_init, n_rel, overlapped>>

vars == <<context_count, hvx_on, refs, live, phase, call, pf, rn, al,
          heapVars, concVars>>

(***************************************************************************)
(* Bounds of the model.                                                    *)
(***************************************************************************)
\* number of distinct module images (files) the host may name
NumImages == 2
\* cap on |context_count| and on the open count of one image
MaxCount == 2

\* largest count given to halide_do_par_for
MaxSize == 3
\* largest number of input buffers, of input scalars and of output buffers
MaxArgs == 2
\* largest address the underlying allocator returns
MaxAddr == 260
\* largest number of blocks of halide_malloc live at a time
MaxBlocks == 2
\* number of concurrent callers, and the number of calls they complete
NumThreads == 2
MaxConcCalls == 3

Images == 1 .. NumImages
\* NULL (0) and image handles; dlopen of image i returns handle i
Handles == 0 .. NumImages

\* results the runtime-installation export may report
RtResults == {0, 7, -2}
\* results of the platform power calls (0 = granted)
PowerResults == {0, 2}

(***************************************************************************)
(* The module loader and the power reference count.                        *)
(* A call is described by the sequence of platform calls and counter       *)
(* accesses it performs, each with its result, in program order.           *)
(***************************************************************************)
Step(name, result) == <<name, result>>

NoCall == [op |-> "none", ret |-> 0, steps |-> <<>>, module_ptr |-> 0]

\* dlopen(file): a non-NULL handle adds one reference to the image
dlopen(r, file) == [r EXCEPT ![file] = @ + 1]

\* dlclose(h): zero and one reference dropped when h is a loaded image,
\* non-zero and no effect otherwise
dlclose_ok(r, h) == h \in Images /\ r[h] > 0
dlclose(r, h) == IF dlclose_ok(r, h) THEN [r EXCEPT ![h] = @ - 1] ELSE r
dlclose_ret(r, h) == IF dlclose_ok(r, h) THEN 0 ELSE -1

\* status returned when set_runtime reports a non-zero result ("return result")
InstallFailureStatus_AlwaysMinusOne(result) == -1
InstallFailureStatus(result) == result

\* status returned by release_kernels ("return 0"), whatever dlclose and
\* the power-down request reported
ReleaseStatus_Propagating(dlclose_result, pd) == IF dlclose_result # 0 THEN dlclose_result ELSE pd
ReleaseStatus(dlclose_result, pd) == 0

\* "if (context_count == 0)": initialize_kernels requests power
NeedsPowerOn_NotPositive(cnt) == cnt <= 0
NeedsPowerOn_Never(cnt) == cnt < 0
NeedsPowerOn(cnt) == cnt = 0

\* context_count when HAP_power_set is denied: "return -1" comes before
\* "context_count++"
CountAfterDenied_Incremented(cnt) == cnt + 1
CountAfterDenied(cnt) == cnt

\* "context_count++" and "context_count--": the value stored for the value
\* loaded
Increment(v) == v + 1
Decrement_Clamped(v) == IF v = 0 THEN 0 ELSE v - 1
Decrement(v) == v - 1

\* "if (context_count-- == 0)": release_kernels requests power-down when the
\* value loaded before the decrement is zero
NeedsPowerDown(old) == old = 0

\* halide_hexagon_remote_initialize_kernels(code, codeLen, module_ptr)
\*   file: the image named by code;  dl: dlopen returns non-NULL;
\*   sym: dlsym finds halide_noos_set_runtime;  rt: result of set_runtime;
\*   pw: result of HAP_power_set;  cnt, hvx, r: state before the call.
halide_hexagon_remote_initialize_kernels(file, dl, sym, rt, pw, cnt, hvx, r) ==
  IF ~dl THEN
    [count |-> cnt, hvx |-> hvx, refs |-> r, ret |-> -1, module_ptr |-> 0,
     steps |-> <<Step("dlopen", 0)>>]
  ELSE IF ~sym THEN
    [count |-> cnt, hvx |-> hvx, refs |-> dlclose(dlopen(r, file), file),
     ret |-> -1, module_ptr |-> 0,
     steps |-> <<Step("dlopen", file), Step("dlsym", 0),
                 Step("dlclose", dlclose_ret(dlopen(r, file), file))>>]
  ELSE IF rt # 0 THEN
    [count |-> cnt, hvx |-> hvx, refs |-> dlclose(dlopen(r, file), file),
     ret |-> InstallFailureStatus(rt), module_ptr |-> 0,
     steps |-> <<Step("dlopen", file), Step("dlsym", 1),
                 Step("set_runtime", rt),
                 Step("dlclose", dlclose_ret(dlopen(r, file), file))>>]
  ELSE IF NeedsPowerOn(cnt) THEN
    IF pw # 0 THEN
      [count |-> CountAfterDenied(cnt), hvx |-> hvx, refs |-> dlopen(r, file), ret |-> -1,
       module_ptr |-> file,
       steps |-> <<Step("dlopen", file), Step("dlsym", 1),
                   Step("set_runtime", rt), Step("read context_count", cnt),
                   Step("HAP_power_set", pw)>>]
    ELSE
      [count |-> Increment(cnt), hvx |-> TRUE, refs |-> dlopen(r, file), ret |-> 0,
       module_ptr |-> file,
       steps |-> <<Step("dlopen", file), Step("dlsym", 1),
                   Step("set_runtime", rt), Step("read context_count", cnt),
                   Step("HAP_power_set", pw), Step("context_count++", cnt)>>]
  ELSE
    [count |-> Increment(cnt), hvx |-> hvx, refs |-> dlopen(r, file), ret |-> 0,
     module_ptr |-> file,
     steps |-> <<Step("dlopen", file), Step("dlsym", 1),
                 Step("set_runtime", rt), Step("read context_count", cnt),
                 Step("context_count++", cnt)>>]

\* halide_hexagon_remote_release_kernels(module_ptr, codeLen)
\*   h: the handle passed;  pd: result of HAP_power_request(0, 0, -1);
\*   the power-down request is made when context_count-- yields 0, that is
\*   when the count was zero before the decrement.
halide_hexagon_remote_release_kernels(h, pd, cnt, hvx, r) ==
  IF NeedsPowerDown(cnt) THEN
    [count |-> Decrement(cnt), hvx |-> IF pd = 0 THEN FALSE ELSE hvx,
     refs |-> dlclose(r, h), ret |-> ReleaseStatus(dlclose_ret(r, h), pd),
     module_ptr |-> h,
     steps |-> <<Step("dlclose", dlclose_ret(r, h)),
                 Step("context_count--", cnt),
                 Step("HAP_power_request", pd)>>]
  ELSE
    [count |-> Decrement(cnt), hvx |-> hvx,
     refs |-> dlclose(r, h), ret |-> ReleaseStatus(dlclose_ret(r, h), 0),
     module_ptr |-> h,
     steps |-> <<Step("dlclose", dlclose_ret(r, h)),
                 Step("context_count--", cnt)>>]

CallOf(name, o) ==
  [op |-> name, ret |-> o.ret, steps |-> o.steps, module_ptr |-> o.module_ptr]

\* history of the calls made so far: "acquire" while every call was a
\* successful initialize, "release" once these are followed only by releases
\* of handles that are live, "other" for every other history
PhaseAfterInit(ok) == IF ok /\ phase \in {"start", "acquire"} THEN "acquire" ELSE "other"
PhaseAfterRelease(h) ==
  IF phase \in {"acquire", "release"} /\ h \in Images /\ live[h] > 0
  THEN "release" ELSE "other"

InitializeKernels ==
  /\ context_count < MaxCount
  /\ \E file \in Images, dl \in BOOLEAN, sym \in BOOLEAN,
        rt \in RtResults, pw \in PowerResults :
       /\ refs[file] < MaxCount
       /\ LET o == halide_hexagon_remote_initialize_kernels(
                     file, dl, sym, rt, pw, context_count, hvx_on, refs)
          IN /\ context_count' = o.count
             /\ hvx_on' = o.hvx
             /\ refs' = o.refs
             /\ call' = CallOf("initialize_kernels", o)
             /\ live' = IF o.ret = 0 THEN [live EXCEPT ![file] = @ + 1] ELSE live
             /\ phase' = PhaseAfterInit(o.ret = 0)
  /\ UNCHANGED <<pf, rn, al, heapVars, concVars>>

ReleaseHandle(h) ==
  /\ context_count > -MaxCount
  /\ \E pd \in PowerResults :
       LET o == halide_hexagon_remote_release_kernels(
                  h, pd, context_count, hvx_on, refs)
       IN /\ context_count' = o.count
          /\ hvx_on' = o.hvx
          /\ refs' = o.refs
          /\ call' = CallOf("release_kernels", o)
          /\ live' = IF h \in Images /\ live[h] > 0
                     THEN [live EXCEPT ![h] = @ - 1] ELSE live
          /\ phase' = PhaseAfterRelease(h)
  /\ UNCHANGED <<pf, rn, al, heapVars, concVars>>

\* release_kernels called with any handle, NULL and stale handles included
ReleaseKernels == \E h \in Handles : ReleaseHandle(h)

\* release_kernels called under handle discipline: on a handle that a
\* successful initialize_kernels returned and that was not yet released
ReleaseLiveKernels == \E h \in Images : live[h] > 0 /\ ReleaseHandle(h)

(***************************************************************************)
(* The sequential task executor.  Indices are C ints; min + size is        *)
(* computed in int, and its overflow is undefined behaviour.               *)
(***************************************************************************)
IntMax == 2147483647
IntMin == -IntMax - 1

\* starts and counts given to halide_do_par_for
Mins == {-1, 0, IntMax - 1}
Sizes == -1 .. MaxSize
\* statuses a task may return
Statuses == {0, 3, -1}

\* min + size is outside the range of int
Overflows(min, size) ==
  \/ size > 0 /\ min > IntMax - size
  \/ size < 0 /\ min < IntMin - size

\* the indices a task can be invoked on for these starts and counts
TaskIdx ==
  UNION {{m + d : d \in {e \in 0 .. MaxSize - 1 : m <= 0 \/ e <= IntMax - m}} :
         m \in Mins}
\* a task: the status it returns at each index (zero elsewhere)
Tasks == [TaskIdx -> Statuses]

NoParFor == [op |-> "none", min |-> 0, size |-> 0, f |-> <<>>, ub |-> "none",
             calls |-> <<>>, result |-> 0]

\* halide_do_task(user_context, f, idx, closure)
halide_do_task(f, idx) == IF idx \in DOMAIN f THEN f[idx] ELSE 0

\* "if (result)": the loop returns on this result
TaskFailed_PositiveOnly(result) == result > 0
TaskFailed(result) == result # 0

\* for (int x = min; x < limit; x++) with the task called on x
RECURSIVE ParForLoop(_, _, _, _)
ParForLoop(f, x, limit, calls) ==
  IF x < limit THEN
    LET result == halide_do_task(f, x)
    IN IF TaskFailed(result)
       THEN [calls |-> Append(calls, x), result |-> result]
       ELSE ParForLoop(f, x + 1, limit, Append(calls, x))
  ELSE [calls |-> calls, result |-> 0]

\* the same loop as a build compiles it that assumes min + size does not
\* overflow: n iterations, x incremented in the machine's arithmetic
RECURSIVE ParForCounted(_, _, _, _)
ParForCounted(f, x, n, calls) ==
  IF n > 0 THEN
    LET result == halide_do_task(f, x)
    IN IF TaskFailed(result)
       THEN [calls |-> Append(calls, x), result |-> result]
       ELSE ParForCounted(f, IF x = IntMax THEN IntMin ELSE x + 1, n - 1,
                          Append(calls, x))
  ELSE [calls |-> calls, result |-> 0]

\* min + size in two's complement, for an overflowing sum of positive size
WrapAdd(min, size) == (min - IntMax - 1) + (size - IntMax - 1)

\* halide_do_par_for(user_context, f, min, size, closure)
\*   ub: what the build makes of the overflow of min + size
halide_do_par_for(f, min, size, ub) ==
  IF ~Overflows(min, size) THEN ParForLoop(f, min, min + size, <<>>)
  ELSE IF ub = "wrap" THEN ParForLoop(f, min, WrapAdd(min, size), <<>>)
  ELSE ParForCounted(f, min, size, <<>>)

\* one call per behaviour: the result depends on the arguments only
DoParFor ==
  /\ pf.op = "none"
  /\ \E f \in Tasks, min \in Mins, size \in Sizes, ub \in {"wrap", "counted"} :
       LET o == halide_do_par_for(f, min, size, ub)
       IN pf' = [op |-> "do_par_for", min |-> min, size |-> size, f |-> f,
                 ub |-> IF Overflows(min, size) THEN ub ELSE "none",
                 calls |-> o.calls, result |-> o.result]
  /\ UNCHANGED <<context_count, hvx_on, refs, live, phase, call, rn, al, heapVars, concVars>>

(***************************************************************************)
(* The invocation marshaler.  A pointer is the object it points to: the    *)
(* k-th record of the buffers array, or caller memory at a data address.   *)
(***************************************************************************)
\* data pointers carried by the caller's buffer elements
DataPtrs == {16, 32}
\* what memory obtained from alloca holds before it is written
StackValues == {0, 99}
\* statuses the pipeline entry point may return
PipelineResults == {0, 5, -1}

SeqsUpTo(S, n) == UNION {[1 .. k -> S] : k \in 0 .. n}

BufferPtr(k) == [obj |-> "buffer_t", at |-> k]
DataPtr(p) == [obj |-> "data", at |-> p]
StackPtr(g) == [obj |-> "uninitialized", at |-> g]

NoRun == [op |-> "none", input_buffers |-> <<>>, input_scalars |-> <<>>,
          output_buffers |-> <<>>, args |-> <<>>, buffers |-> <<>>,
          invocations |-> <<>>, pipeline_result |-> 0, ret |-> 0,
          stack |-> 0]

\* a record of the buffers array as alloca returns it: run writes neither
\* field before its loops, so both hold what the stack memory held
NewBufferT_Zeroed(g) == [dev |-> 0, host |-> g]
NewBufferT(g) == [dev |-> g, host |-> g]

\* next_buffer_t++
AdvanceBuffer_Stuck(p) == p
AdvanceBuffer(p) == p + 1

\* for (i = 0; i < len; i++, next_arg++, next_buffer_t++) {
\*     next_buffer_t->host = src[i].data;  *next_arg = next_buffer_t; }
RECURSIVE BufferLoop(_, _, _)
BufferLoop(src, i, st) ==
  IF i < Len(src) THEN
    BufferLoop(src, i + 1,
      [args |-> [st.args EXCEPT ![st.next_arg] = BufferPtr(st.next_buffer_t)],
       buffers |-> [st.buffers EXCEPT ![st.next_buffer_t].host = src[i + 1]],
       next_arg |-> st.next_arg + 1,
       next_buffer_t |-> AdvanceBuffer(st.next_buffer_t)])
  ELSE st

\* for (i = 0; i < len; i++, next_arg++) { *next_arg = src[i].data; }
RECURSIVE ScalarLoop(_, _, _)
ScalarLoop(src, i, st) ==
  IF i < Len(src) THEN
    ScalarLoop(src, i + 1,
      [st EXCEPT !.args = [st.args EXCEPT ![st.next_arg] = DataPtr(src[i + 1])],
                 !.next_arg = st.next_arg + 1])
  ELSE st

\* status returned by run: "return pipeline(args)"
RunStatus_Normalised(pipeline_result) == IF pipeline_result # 0 THEN -1 ELSE 0
RunStatus(pipeline_result) == pipeline_result

\* halide_hexagon_remote_run(module_ptr, function, input_buffers,
\*                           input_scalars, output_buffers)
\*   g: the contents of the memory alloca returns;
\*   pipeline_result: what the entry point returns
halide_hexagon_remote_run(input_buffers, input_scalars, output_buffers, g, pipeline_result) ==
  LET nargs == Len(input_buffers) + Len(input_scalars) + Len(output_buffers)
      nbufs == Len(input_buffers) + Len(output_buffers)
      st0 == [args |-> [k \in 1 .. nargs |-> StackPtr(g)],
              buffers |-> [k \in 1 .. nbufs |-> NewBufferT(g)],
              next_arg |-> 1, next_buffer_t |-> 1]
      st1 == BufferLoop(input_buffers, 0, st0)
      st2 == ScalarLoop(input_scalars, 0, st1)
      st3 == BufferLoop(output_buffers, 0, st2)
  IN [args |-> st3.args, buffers |-> st3.buffers,
      invocations |-> <<st3.args>>, ret |-> RunStatus(pipeline_result)]

\* one call per behaviour: the result depends on the arguments only
Run ==
  /\ rn.op = "none"
  /\ \E ib \in SeqsUpTo(DataPtrs, MaxArgs), sc \in SeqsUpTo(DataPtrs, MaxArgs),
        ob \in SeqsUpTo(DataPtrs, MaxArgs), g \in StackValues,
        pr \in PipelineResults :
       LET o == halide_hexagon_remote_run(ib, sc, ob, g, pr)
       IN rn' = [op |-> "run", input_buffers |-> ib, input_scalars |-> sc,
                 output_buffers |-> ob, args |-> o.args,
                 buffers |-> o.buffers, invocations |-> o.invocations,
                 pipeline_result |-> pr, ret |-> o.ret,
                 stack |-> IF Len(o.buffers) + Len(o.args) > 0 THEN g ELSE 0]
  /\ UNCHANGED <<context_count, hvx_on, refs, live, phase, call, pf, al, heapVars, concVars>>

(***************************************************************************)
(* The aligned allocator.  Addresses are natural numbers, 0 is NULL.       *)
(***************************************************************************)
alignment == 128
PtrSize == 4

\* A size_t is a residue modulo 2^w (w the width of size_t).  A residue
\* within a few hundred of 2^w is written as the negative integer it is
\* congruent to, -n standing for 2^w - n = (size_t)-n, so that sums of the
\* values used here are exact in size_t arithmetic.
SizeIsHuge(n) == n < 0

\* sizes requested from halide_malloc; -11 is SIZE_MAX - 10
AllocSizes == {0, 1, 100, 128, 1000, -11}
\* results of the underlying malloc: NULL or any address
Origs == 0 .. MaxAddr

\* v & ~m on naturals
RECURSIVE AndNot(_, _)
AndNot(v, m) ==
  IF v = 0 THEN 0
  ELSE 2 * AndNot(v \div 2, m \div 2)
         + (IF v % 2 = 1 /\ m % 2 = 0 THEN 1 ELSE 0)

\* (orig + alignment + sizeof(void*) - 1) & ~(alignment - 1)
AlignedPtr_WrongMask(orig) == AndNot(orig + alignment + PtrSize - 1, alignment)
AlignedPtr(orig) == AndNot(orig + alignment + PtrSize - 1, alignment - 1)

\* the size passed to the underlying malloc: "malloc(x + alignment)"
AllocRequest_WithSlot(x) == x + alignment + PtrSize
AllocRequest(x) == x + alignment

NoAlloc == [op |-> "none", x |-> 0, requested |-> 0, orig |-> 0, ptr |-> 0,
            stores |-> <<>>]

\* halide_malloc(user_context, x)
\*   orig: what malloc(x + alignment) returns
\*   stores: the <<address, value>> writes to memory, ((void **)ptr)[-1] = orig
halide_malloc(x, orig) ==
  IF orig = 0 THEN
    [requested |-> AllocRequest(x), ptr |-> 0, stores |-> <<>>]
  ELSE
    [requested |-> AllocRequest(x), ptr |-> AlignedPtr(orig),
     stores |-> << <<AlignedPtr(orig) - PtrSize, orig>> >>]

\* one call per behaviour: the result depends on the arguments and on
\* what the underlying malloc returns
Malloc ==
  /\ al.op = "none"
  /\ \E x \in AllocSizes, orig \in Origs :
       LET o == halide_malloc(x, orig)
       IN al' = [op |-> "malloc", x |-> x, requested |-> o.requested,
                 orig |-> orig, ptr |-> o.ptr, stores |-> o.stores]
  /\ UNCHANGED <<context_count, hvx_on, refs, live, phase, call, pf, rn, heapVars, concVars>>

(***************************************************************************)
(* The allocator on a heap: several blocks, allocated and freed in any     *)
(* order.  The underlying malloc returns NULL or the start of a block that *)
(* overlaps no live block; memory is the pointer slots written so far.     *)
(***************************************************************************)
\* sizes requested from halide_malloc on the heap; -11 is SIZE_MAX - 10
HeapSizes == {0, -11}
\* addresses the underlying malloc returns: aligned for any object
HeapOrigs == {a \in 1 .. MaxAddr : a % (2 * PtrSize) = 0}
\* the addresses a pointer slot can have
SlotAddrs == {AlignedPtr(a) - PtrSize : a \in HeapOrigs}
\* content of memory that was never written or belongs to a freed block
Indeterminate == -1

NoFree == [op |-> "none", ptr |-> 0, frees |-> <<>>, expected |-> 0]

\* the blocks [orig, orig + len) and [b.orig, b.orig + b.len) overlap
Overlaps(orig, len, b) == orig < b.orig + b.len /\ b.orig < orig + len

\* what malloc(len) may return
MallocResults(len) ==
  {0} \cup {a \in HeapOrigs : \A b \in heap : ~Overlaps(a, len, b)}

\* memory after the writes of a call
RECURSIVE Write(_, _)
Write(m, stores) ==
  IF stores = <<>> THEN m
  ELSE Write([m EXCEPT ![Head(stores)[1]] = Head(stores)[2]], Tail(stores))

\* halide_free(user_context, ptr): the address passed to free,
\* ((void **)ptr)[-1]
halide_free(ptr, m) == m[ptr - PtrSize]

HeapMalloc ==
  /\ Cardinality(hp) < MaxBlocks
  /\ \E x \in HeapSizes :
       \E orig \in MallocResults(AllocRequest(x)) :
         LET o == halide_malloc(x, orig)
         IN /\ al' = [op |-> "malloc", x |-> x, requested |-> o.requested,
                      orig |-> orig, ptr |-> o.ptr, stores |-> o.stores]
            /\ mem' = Write(mem, o.stores)
            /\ heap' = IF orig = 0 THEN heap
                       ELSE heap \cup {[orig |-> orig, len |-> o.requested]}
            /\ hp' = IF orig = 0 THEN hp
                     ELSE hp \cup {[ptr |-> o.ptr, orig |-> orig]}
  /\ UNCHANGED <<context_count, hvx_on, refs, live, phase, call, pf, rn, fr, concVars>>

\* halide_free on a pointer that halide_malloc returned and that was not
\* freed yet; free(a) ends the block that starts at a, whose contents become
\* indeterminate
HeapFree ==
  /\ \E h \in hp :
       LET a == halide_free(h.ptr, mem)
           gone == {b \in heap : b.orig = a}
       IN /\ fr' = [op |-> "free", ptr |-> h.ptr, frees |-> <<a>>,
                    expected |-> h.orig]
          /\ heap' = heap \ gone
          /\ mem' = [s \in SlotAddrs |->
                       IF \E b \in gone : b.orig <= s /\ s < b.orig + b.len
                       THEN Indeterminate ELSE mem[s]]
          /\ hp' = hp \ {h}
  /\ UNCHANGED <<context_count, hvx_on, refs, live, phase, call, pf, rn, al, concVars>>

(***************************************************************************)
(* initialize_kernels and release_kernels run by several callers at once.  *)
(* The code takes no lock: "context_count++" and "context_count--" are a   *)
(* load and a store, and the steps of different callers interleave.  Only  *)
(* the part of a call from its first access to context_count on is         *)
(* followed; a call that fails before it does not touch the count.         *)
(***************************************************************************)
Threads == 1 .. NumThreads

InProgress == {t \in Threads : pc[t] # "idle"}
Quiescent == InProgress = {}

otherVars == <<refs, live, phase, call, pf, rn, al, heapVars>>

\* a caller enters initialize_kernels; the image is opened and installed
BeginInit ==
  \E t \in Threads :
    /\ pc[t] = "idle"
    /\ n_init + n_rel + Cardinality(InProgress) < MaxConcCalls
    /\ pc' = [pc EXCEPT ![t] = "init_test"]
    /\ overlapped' = (overlapped \/ InProgress # {})
    /\ UNCHANGED <<context_count, hvx_on, tmp, n_init, n_rel, otherVars>>

\* if (context_count == 0) { ... HAP_power_set ...; return -1 if denied }
InitTest ==
  \E t \in Threads, pw \in PowerResults :
    /\ pc[t] = "init_test"
    /\ IF NeedsPowerOn(context_count)
       THEN IF pw # 0
            THEN pc' = [pc EXCEPT ![t] = "idle"] /\ hvx_on' = hvx_on
            ELSE pc' = [pc EXCEPT ![t] = "inc_load"] /\ hvx_on' = TRUE
       ELSE pc' = [pc EXCEPT ![t] = "inc_load"] /\ hvx_on' = hvx_on
    /\ UNCHANGED <<context_count, tmp, n_init, n_rel, overlapped, otherVars>>

\* context_count++ : the load
IncLoad ==
  \E t \in Threads :
    /\ pc[t] = "inc_load"
    /\ tmp' = [tmp EXCEPT ![t] = context_count]
    /\ pc' = [pc EXCEPT ![t] = "inc_store"]
    /\ UNCHANGED <<context_count, hvx_on, n_init, n_rel, overlapped, otherVars>>

\* context_count++ : the store; return 0
IncStore ==
  \E t \in Threads :
    /\ pc[t] = "inc_store"
    /\ context_count' = Increment(tmp[t])
    /\ tmp' = [tmp EXCEPT ![t] = 0]
    /\ pc' = [pc EXCEPT ![t] = "idle"]
    /\ n_init' = n_init + 1
    /\ UNCHANGED <<hvx_on, n_rel, overlapped, otherVars>>

\* a caller enters release_kernels; the image is closed
BeginRelease ==
  \E t \in Threads :
    /\ pc[t] = "idle"
    /\ n_init + n_rel + Cardinality(InProgress) < MaxConcCalls
    /\ pc' = [pc EXCEPT ![t] = "dec_load"]
    /\ overlapped' = (overlapped \/ InProgress # {})
    /\ UNCHANGED <<context_count, hvx_on, tmp, n_init, n_rel, otherVars>>

\* context_count-- : the load
DecLoad ==
  \E t \in Threads :
    /\ pc[t] = "dec_load"
    /\ tmp' = [tmp EXCEPT ![t] = context_count]
    /\ pc' = [pc EXCEPT ![t] = "dec_store"]
    /\ UNCHANGED <<context_count, hvx_on, n_init, n_rel, overlapped, otherVars>>

\* context_count-- : the store; the value loaded compared with 0 and the
\* power-down request; return 0
DecStore ==
  \E t \in Threads, pd \in PowerResults :
    /\ pc[t] = "dec_store"
    /\ context_count' = Decrement(tmp[t])
    /\ hvx_on' = IF NeedsPowerDown(tmp[t]) /\ pd = 0 THEN FALSE ELSE hvx_on
    /\ tmp' = [tmp EXCEPT ![t] = 0]
    /\ pc' = [pc EXCEPT ![t] = "idle"]
    /\ n_rel' = n_rel + 1
    /\ UNCHANGED <<n_init, overlapped, otherVars>>

Init ==
  /\ context_count = 0
  /\ hvx_on = FALSE
  /\ refs = [i \in Images |-> 0]
  /\ live = [i \in Images |-> 0]
  /\ phase = "start"
  /\ call = NoCall
  /\ pf = NoParFor
  /\ rn = NoRun
  /\ al = NoAlloc
  /\ heap = {}
  /\ mem = [s \in SlotAddrs |-> Indeterminate]
  /\ hp = {}
  /\ fr = NoFree
  /\ pc = [t \in Threads |-> "idle"]
  /\ tmp = [t \in Threads |-> 0]
  /\ n_init = 0
  /\ n_rel = 0
  /\ overlapped = FALSE

Next == InitializeKernels \/ ReleaseKernels

Spec == Init /\ [][Next]_vars

NextDisciplined == InitializeKernels \/ ReleaseLiveKernels
SpecDisciplined == Init /\ [][NextDisciplined]_vars

NextHeap == HeapMalloc \/ HeapFree
SpecHeap == Init /\ [][NextHeap]_vars

NextConc ==
  \/ BeginInit \/ InitTest \/ IncLoad \/ IncStore
  \/ BeginRelease \/ DecLoad \/ DecStore
SpecConc == Init /\ [][NextConc]_vars

NextParFor == DoParFor
SpecParFor == Init /\ [][NextParFor]_vars

NextRun == Run
SpecRun == Init /\ [][NextRun]_vars

NextMalloc == Malloc
SpecMalloc == Init /\ [][NextMalloc]_vars

(***************************************************************************)
(* Properties of the module loader and the power reference count.          *)
(***************************************************************************)
HasStep(c, name) == \E i \in 1 .. Len(c.steps) : c.steps[i][1] = name
StepIndex(c, name) == CHOOSE i \in 1 .. Len(c.steps) : c.steps[i][1] = name
StepResult(c, name) == c.steps[StepIndex(c, name)][2]

\* C1: in every reachable state, context_count > 0 exactly when the shared
\* hardware resource is powered on.
C1_CountPositiveIffPowered == (context_count > 0) <=> hvx_on

\* C2: N >= 1 successful initialize_kernels calls followed by N
\* release_kernels calls, one per returned handle, leave the resource
\* powered off.
C2_BalancedCallsPowerOff ==
  (phase = "release" /\ \A i \in Images : live[i] = 0) => ~hvx_on

\* C3: context_count is never negative, also after a release_kernels call
\* made while it is zero.
C3_CountNeverNegative == context_count >= 0

\* C4: an initialize_kernels call that returns a non-zero status leaves the
\* set of loaded images as it was before the call.
C4_FailedInitUnloads ==
  [][(call'.op = "initialize_kernels" /\ call'.ret # 0) => refs' = refs]_vars

\* C5: release_kernels returns zero whatever the handle and whatever dlclose
\* and the power-down request report, and it unloads the image before it
\* touches the power reference count.
C5_ReleaseAlwaysZero ==
  call.op = "release_kernels" =>
    /\ call.ret = 0
    /\ call.steps[1][1] = "dlclose"
    /\ HasStep(call, "context_count--")
    /\ StepIndex(call, "dlclose") < StepIndex(call, "context_count--")

\* a release of a handle that is not loaded, whose power-down request is denied
C5_Witness ==
  /\ call.op = "release_kernels"
  /\ call.steps[1] = Step("dlclose", -1)
  /\ HasStep(call, "HAP_power_request")
  /\ StepResult(call, "HAP_power_request") # 0

\* C6: initialize_kernels returns zero exactly when the image was opened, the
\* runtime-installation export was found, the installation returned zero and
\* the power-on request, made only when the count was zero, was granted; a
\* failed installation's own result is the status returned.
C6_InitStatus ==
  call.op = "initialize_kernels" =>
    LET opened == StepResult(call, "dlopen") # 0
        found == HasStep(call, "dlsym") /\ StepResult(call, "dlsym") # 0
        installed == HasStep(call, "set_runtime")
                       /\ StepResult(call, "set_runtime") = 0
        requested == HasStep(call, "HAP_power_set")
    IN /\ (call.ret = 0) <=>
            (opened /\ found /\ installed
               /\ (requested => StepResult(call, "HAP_power_set") = 0))
       /\ requested => StepResult(call, "read context_count") = 0
       /\ (HasStep(call, "set_runtime") /\ StepResult(call, "set_runtime") # 0)
            => call.ret = StepResult(call, "set_runtime")

\* an initialize_kernels call whose installation reported 7
C6_Witness ==
  /\ call.op = "initialize_kernels"
  /\ HasStep(call, "set_runtime")
  /\ StepResult(call, "set_runtime") = 7
  /\ call.ret = 7

(***************************************************************************)
(* Properties of the sequential task executor.                             *)
(***************************************************************************)
\* index i lies in [min, min + size)
InRange(i) == pf.min <= i /\ i - pf.min < pf.size

\* the calls are made on indices of the range in ascending order, each at
\* most once; a non-zero status ends the loop and is the result; when every
\* call returns zero every index of the range was called and the result is 0
ParForContract ==
  LET n == Len(pf.calls)
  IN /\ \A j \in 1 .. n : InRange(pf.calls[j])
     /\ \A j \in 1 .. n - 1 : pf.calls[j] < pf.calls[j + 1]
     /\ \A j \in 1 .. n :
          halide_do_task(pf.f, pf.calls[j]) # 0
            => j = n /\ pf.result = halide_do_task(pf.f, pf.calls[j])
     /\ (\A j \in 1 .. n : halide_do_task(pf.f, pf.calls[j]) = 0)
          => /\ pf.result = 0
             /\ n = (IF pf.size > 0 THEN pf.size ELSE 0)

\* C7 as stated: for every start, count and task, halide_do_par_for calls the
\* task on the indices of [start, start+count) in ascending order, each at
\* most once, stops at the first non-zero status and returns it, and
\* otherwise calls every index of the range once and returns zero.
C7_ParForEveryRange == pf.op = "do_par_for" => ParForContract

\* C7 amended: the same, for every start and count whose sum start + count
\* is representable as an int.
C7_ParForRepresentableRange ==
  (pf.op = "do_par_for" /\ ~Overflows(pf.min, pf.size)) => ParForContract

\* a call that stopped at a failing index after a successful one, with
\* a later index of the range left uncalled
C7_Witness ==
  /\ pf.op = "do_par_for"
  /\ ~Overflows(pf.min, pf.size)
  /\ pf.size > Len(pf.calls)
  /\ Len(pf.calls) = 2
  /\ pf.result = -1

(***************************************************************************)
(* Properties of the invocation marshaler.                                 *)
(***************************************************************************)
\* C8: the entry point receives exactly a+b+c slots: the first a point to
\* distinct descriptor records whose host is input buffer i's data pointer,
\* the next b are the scalars' data pointers, the last c point to distinct
\* descriptor records whose host is output buffer i's data pointer.
C8_ArgumentVector ==
  rn.op = "run" =>
    LET a == Len(rn.input_buffers)
        b == Len(rn.input_scalars)
        c == Len(rn.output_buffers)
        argv == rn.invocations[1]
        IsBuf(k) == /\ argv[k].obj = "buffer_t"
                    /\ argv[k].at \in 1 .. Len(rn.buffers)
        BufSlots == (1 .. a) \cup (a + b + 1 .. a + b + c)
    IN /\ Len(argv) = a + b + c
       /\ \A i \in 1 .. a :
            IsBuf(i) /\ rn.buffers[argv[i].at].host = rn.input_buffers[i]
       /\ \A i \in 1 .. b : argv[a + i] = DataPtr(rn.input_scalars[i])
       /\ \A i \in 1 .. c :
            /\ IsBuf(a + b + i)
            /\ rn.buffers[argv[a + b + i].at].host = rn.output_buffers[i]
       /\ \A j, k \in BufSlots : j # k => argv[j].at # argv[k].at

\* a call with two inputs, a scalar and two outputs, all buffers sharing
\* one data pointer
C8_Witness ==
  /\ rn.op = "run"
  /\ rn.input_buffers = <<16, 16>>
  /\ Len(rn.input_scalars) = 1
  /\ rn.output_buffers = <<16, 16>>

\* C9: run invokes the entry point exactly once and returns its status
\* unchanged, zero or not.
C9_StatusVerbatim ==
  rn.op = "run" => Len(rn.invocations) = 1 /\ rn.ret = rn.pipeline_result

\* a call whose entry point returned 5
C9_Witness == rn.op = "run" /\ rn.pipeline_result = 5 /\ rn.ret = 5

(***************************************************************************)
(* Properties of the aligned allocator.                                    *)
(***************************************************************************)
\* C10: for every size and every address the underlying allocator returns,
\* a non-null result of halide_malloc is a multiple of 128.
C10_Aligned128 == (al.op = "malloc" /\ al.ptr # 0) => al.ptr % 128 = 0

\* an allocation whose underlying address is not itself aligned
C10_Witness ==
  /\ al.op = "malloc"
  /\ al.orig % 128 = 127
  /\ al.x = 100
  /\ al.ptr # 0

(***************************************************************************)
(* Further properties of the power reference count.                        *)
(***************************************************************************)
RECURSIVE SumOver(_, _)
SumOver(f, S) ==
  IF S = {} THEN 0
  ELSE LET i == CHOOSE j \in S : TRUE IN f[i] + SumOver(f, S \ {i})

\* number of modules successfully initialized and not yet released
LiveModules == SumOver(live, Images)
\* number of images opened and not yet unloaded
LoadedImages == SumOver(refs, Images)

\* C11: the release_kernels call that brings context_count from 1 to 0
\* issues a power-down request, and no release_kernels call that leaves the
\* count above zero issues one.
C11_PowerDownOnLastRelease ==
  call.op = "release_kernels" =>
    LET old == StepResult(call, "context_count--")
    IN /\ old = 1 => HasStep(call, "HAP_power_request")
       /\ old > 1 => ~HasStep(call, "HAP_power_request")

\* C12: initialize_kernels requests power only after the image was opened
\* and the installation returned zero, and only when context_count is zero
\* at that point; a call that returns zero increments context_count by
\* exactly one, with or without a power-on request.
C12_PowerOnAndIncrement ==
  [][call'.op = "initialize_kernels" =>
       /\ HasStep(call', "HAP_power_set") =>
            /\ StepIndex(call', "dlopen") < StepIndex(call', "HAP_power_set")
            /\ StepResult(call', "dlopen") # 0
            /\ HasStep(call', "set_runtime")
            /\ StepIndex(call', "set_runtime") < StepIndex(call', "HAP_power_set")
            /\ StepResult(call', "set_runtime") = 0
            /\ context_count = 0
       /\ call'.ret = 0 => context_count' = context_count + 1]_vars

\* a successful initialize_kernels that found the count positive and made
\* no power-on request
C12_Witness ==
  /\ call.op = "initialize_kernels"
  /\ call.ret = 0
  /\ ~HasStep(call, "HAP_power_set")
  /\ context_count = 2

\* C13: an initialize_kernels call that returns a non-zero status leaves
\* context_count as it was, also when the power-on request is denied.
C13_FailedInitKeepsCount ==
  [][(call'.op = "initialize_kernels" /\ call'.ret # 0)
       => context_count' = context_count]_vars

\* an initialize_kernels call whose power-on request was denied
C13_Witness ==
  /\ call.op = "initialize_kernels"
  /\ call.ret # 0
  /\ HasStep(call, "HAP_power_set")
  /\ StepResult(call, "HAP_power_set") # 0

\* C19: under handle discipline, whenever at least one module is live the
\* shared hardware resource is powered on.
C19_LiveModuleMeansPowered == LiveModules > 0 => hvx_on

\* a module still live after another one was released
C19_Witness ==
  /\ call.op = "release_kernels"
  /\ LiveModules > 0
  /\ hvx_on

\* C20: under handle discipline, context_count equals the number of images
\* currently loaded (opened by initialize_kernels and not yet unloaded).
C20_CountEqualsLoaded == context_count = LoadedImages

(***************************************************************************)
(* Further properties of the invocation marshaler.                         *)
(***************************************************************************)
\* the descriptor records the argument vector passed to the entry point
\* points to
PassedRecords ==
  {rn.buffers[rn.invocations[1][k].at] :
     k \in {j \in 1 .. Len(rn.invocations[1]) :
              rn.invocations[1][j].obj = "buffer_t"}}

\* C15 as stated: in every descriptor record run builds, the dev field is
\* zero when the entry point is invoked.
C15_DevZero == rn.op = "run" => \A b \in PassedRecords : b.dev = 0

\* C15 amended: run never writes the dev field: when the entry point is
\* invoked it holds what the memory alloca returned held, zero or not; only
\* host is set.
C15_DevNeverWritten ==
  rn.op = "run" => \A b \in PassedRecords : b.dev = rn.stack

\* a call with an input and an output buffer on a stack holding non-zero
\* bytes
C15_Witness ==
  /\ rn.op = "run"
  /\ Len(rn.input_buffers) > 0
  /\ Len(rn.output_buffers) > 0
  /\ rn.stack # 0
  /\ \E b \in PassedRecords : b.dev # 0 /\ b.host \in DataPtrs

(***************************************************************************)
(* Further properties of the aligned allocator.                            *)
(***************************************************************************)
\* C16 as stated: halide_malloc(size) requests at least
\* size + alignment + pointer-size bytes from the underlying allocator.
C16_RequestCoversSlot ==
  al.op = "malloc" =>
    /\ ~SizeIsHuge(al.x)
    /\ al.requested >= al.x + 128 + PtrSize

\* C16 amended: halide_malloc(size) requests size + 128 bytes, the sum taken
\* in size_t: it over-allocates by the alignment alone, less than
\* alignment + pointer-size, and for a size within 128 of SIZE_MAX the sum
\* wraps to a request of fewer than 128 bytes.
C16_RequestIsSizePlusAlignment ==
  al.op = "malloc" =>
    /\ al.requested - al.x = 128
    /\ ~SizeIsHuge(al.x) =>
         al.requested >= al.x /\ al.requested < al.x + 128 + PtrSize
    /\ (SizeIsHuge(al.x) /\ al.x >= -128) =>
         al.requested >= 0 /\ al.requested < 128

\* an allocation of 100 bytes, for which 228 were requested
C16_Witness ==
  /\ al.op = "malloc"
  /\ al.x = 100
  /\ al.requested = 228
  /\ al.ptr # 0

\* C17: for every size s and every underlying address orig that is a
\* multiple of the pointer size, the pointer p returned satisfies
\* orig + pointer-size <= p and p + s <= orig + (bytes requested): the
\* pointer slot before p and the s usable bytes lie inside the underlying
\* allocation.  (A size near 2^w exceeds every address of the model.)
C17_BlockInsideAllocation ==
  (al.op = "malloc" /\ al.ptr # 0 /\ al.orig % PtrSize = 0) =>
    /\ al.orig + PtrSize <= al.ptr
    /\ ~SizeIsHuge(al.x)
    /\ al.ptr + al.x <= al.orig + al.requested

\* C18: halide_free(p) passes to the underlying free exactly the address the
\* underlying allocator returned for p's allocation, once, whatever other
\* halide_malloc and halide_free calls happened in between; and when the
\* underlying allocator fails, halide_malloc returns null and writes nothing.
C18_FreeRecoversOriginal ==
  /\ fr.op = "free" => fr.frees = <<fr.expected>>
  /\ (al.op = "malloc" /\ al.orig = 0) => (al.ptr = 0 /\ al.stores = <<>>)

(***************************************************************************)
(* Properties of concurrent callers.                                       *)
(***************************************************************************)
\* C14 as stated: with the reads and writes of context_count of several
\* callers interleaved, no update is lost: once every call has returned,
\* context_count is the number of successful initializes minus the number
\* of releases.
C14_NoLostUpdate == Quiescent => context_count = n_init - n_rel

\* C14 amended: when the calls run one at a time (no call starts while
\* another is in progress), no update is lost and context_count is the
\* number of successful initializes minus the number of releases.
C14_NoLostUpdateWhenSerial ==
  (Quiescent /\ ~overlapped) => context_count = n_init - n_rel

\* three calls run one after the other, a release among them
C14_Witness ==
  /\ Quiescent
  /\ ~overlapped
  /\ n_init + n_rel = MaxConcCalls
  /\ n_rel > 0
  /\ n_init > 0

====
